---- MODULE Spec2Model ----
(***************************************************************************)
(* Plugin subsystem of locust_framework: PluginLoader (plugin_loader.py)   *)
(* and PluginManager (plugin_manager.py) over the capability contracts of  *)
(* plugin_interface.py.  One action per public operation; every operation  *)
(* is computed by a pure operator over a record of the objects' fields so  *)
(* that operations that call each other (Manager.reload_plugin ->          *)
(* disable_plugin -> PluginLoader.reload_plugin -> enable_plugin) compose. *)
(* Spec calls the operations one at a time; LockSpec lets two threads call  *)
(* them concurrently and splits each one at PluginManager.lock and at the   *)
(* plugin code it calls.                                                    *)
(***************************************************************************)
EXTENDS Integers, Sequences, FiniteSets, TLC

(* ------------------------------ bounds -------------------------------- *)
\* number of operations called on the subsystem after its construction
MaxOps == 3

(* --------------------------- the universe ----------------------------- *)
Names == {"CSVReportPlugin", "Notifier", "MissingPlugin"}

\* capability base classes of each plugin type (isinstance tests)
PluginBases(n) ==
    CASE n = "CSVReportPlugin" -> {"ReportPlugin"}
      [] n = "Notifier"        -> {"LocustPlugin"}
      [] n = "MissingPlugin"   -> {"LocustPlugin", "MonitorPlugin"}

\* PluginInfo.dependencies of each plugin type
Dependencies(n) ==
    CASE n = "CSVReportPlugin" -> {}
      [] n = "Notifier"        -> {"MissingPlugin"}
      [] n = "MissingPlugin"   -> {}

LocustEvents ==
    <<"test_start", "test_stop", "user_start", "user_stop",
      "request_success", "request_failure">>
MonitorEvents == <<"start_monitoring", "stop_monitoring">>
Range(s) == {s[i] : i \in DOMAIN s}
Events == Range(LocustEvents) \cup Range(MonitorEvents)

\* handlers of collaborators that are not plugins
External == "external"
ExternalHandlers == {"h1", "h2"}
\* the events they register under
ExternalEvents == {"request_failure"}
\* the events the driver fires: one per registration pattern
TriggerEvents == {"test_start", "request_failure", "start_monitoring"}
\* the order in which the directory scan of discover_plugins yields the units
DiscoveryOrder == <<"CSVReportPlugin", "MissingPlugin", "Notifier">>

\* configurations are sets of <<key, value>> pairs
EmptyCfg == {}
CfgX == {<<"webhook", "x">>}
CfgY == {<<"webhook", "y">>, <<"format", "csv">>}
ConfigInputs == {EmptyCfg, CfgX, CfgY}
\* the configurations each plugin is given
ConfigsFor(n) == IF n = "Notifier" THEN ConfigInputs ELSE {EmptyCfg}
Keys(c) == {p[1] : p \in c}

\* Optional values: <<>> is None, <<v>> is v
None == <<>>
Some(v) == <<v>>
IsSome(o) == o # <<>>
Get(o) == o[1]

VARIABLES
    loaded_plugins,     \* PluginLoader.loaded_plugins (names)
    plugin_metadata,    \* PluginLoader.plugin_metadata (names)
    plugin_instances,   \* PluginLoader.plugin_instances: name -> Optional
    enabled_plugins,    \* PluginManager.enabled_plugins
    plugin_configs,     \* PluginManager.plugin_configs: name -> Optional
    event_handlers,     \* PluginManager.event_handlers: event -> list
    config_file,        \* content of the config file: Optional document
    nextId,             \* identity of the next registered plugin object
    lastOp,             \* the operation that produced this state
    result,             \* its return value
    escaped,            \* it ended with an exception that reached its caller
    calls,              \* the plugin callbacks it invoked, in order
    ops,                \* number of operations called so far
    lock,               \* PluginManager.lock: Optional thread that holds it
    stack,              \* thread -> the frames of its calls into the Manager
    actor               \* Optional thread that took the last step

vars == <<loaded_plugins, plugin_metadata, plugin_instances, enabled_plugins,
          plugin_configs, event_handlers, config_file, nextId, lastOp,
          result, escaped, calls, ops, lock, stack, actor>>

(* ------------------- PluginInterface (base contract) ------------------- *)
\* dict.update: new keys overwrite, the others keep their value
DictUpdate(old, new) == {p \in old : p[1] \notin Keys(new)} \cup new

\* PluginInterface.__init__ followed by a successful initialize(config):
\* the plugin stores the configuration through configure()
NewInstance(id, config) ==
    [id |-> id, init_cfg |-> config, cfg |-> DictUpdate(EmptyCfg, config),
     is_enabled |-> FALSE]

InstEnable(i) == [i EXCEPT !.is_enabled = TRUE]
InstDisable(i) == [i EXCEPT !.is_enabled = FALSE]
\* mutant: configure replaces the configuration instead of merging into it
InstConfigure_Replace(i, config) == [i EXCEPT !.cfg = config]

InstConfigure(i, config) == [i EXCEPT !.cfg = DictUpdate(i.cfg, config)]
\* cleanup() is abstract: it releases resources and keeps the fields
InstCleanup(i) == i

\* one invocation of plugin code; raised = it ended in an exception
Call(id, method, arg, raised) ==
    [inst |-> id, method |-> method, arg |-> arg, raised |-> raised]
Handler(owner, id, method) == [owner |-> owner, inst |-> id, method |-> method]

(* ------------------------------ state ---------------------------------- *)
State ==
    [loaded_plugins |-> loaded_plugins, plugin_metadata |-> plugin_metadata,
     plugin_instances |-> plugin_instances, enabled_plugins |-> enabled_plugins,
     plugin_configs |-> plugin_configs, event_handlers |-> event_handlers,
     nextId |-> nextId, calls |-> <<>>, exc |-> FALSE]

Ret(S, r) == [st |-> S, ret |-> r]

(* ----------------------------- PluginLoader ---------------------------- *)
get_plugin_instance(S, n) == S.plugin_instances[n]

\* mutant: the name is registered before the unit is found and validated
load_plugin_RegisterFirst(S, n, found) ==
    IF n \in S.loaded_plugins THEN Ret(S, TRUE)
    ELSE Ret([S EXCEPT !.loaded_plugins = @ \cup {n},
                       !.plugin_metadata = @ \cup {n}], found)

\* found = the source unit is found, imports, holds a plugin class and the
\* class validates
load_plugin(S, n, found) ==
    IF n \in S.loaded_plugins THEN Ret(S, TRUE)
    ELSE IF ~found THEN Ret(S, FALSE)
    ELSE Ret([S EXCEPT !.loaded_plugins = @ \cup {n},
                       !.plugin_metadata = @ \cup {n}], TRUE)

\* cleanupOk = instance.cleanup() returns without raising
unload_plugin(S, n, cleanupOk) ==
    LET S1 == IF IsSome(S.plugin_instances[n])
              THEN LET i == Get(S.plugin_instances[n])
                       c == Append(S.calls,
                                   Call(i.id, "cleanup", EmptyCfg, ~cleanupOk))
                   IN IF cleanupOk
                      THEN [S EXCEPT !.calls = c,
                                     !.plugin_instances[n] = None]
                      ELSE [S EXCEPT !.calls = c,
                                     !.plugin_instances[n] =
                                         Some(InstCleanup(i))]
              ELSE S
    IN [S1 EXCEPT !.loaded_plugins = @ \ {n},
                  !.plugin_metadata = @ \ {n}]

\* mutant: the object is registered before initialize is called and stays
\* registered when initialize fails
create_plugin_instance_KeepFailed(S, n, config, initOut) ==
    IF n \notin S.loaded_plugins THEN Ret(S, None)
    ELSE IF IsSome(S.plugin_instances[n]) THEN Ret(S, S.plugin_instances[n])
    ELSE LET i == NewInstance(S.nextId, config)
             S1 == [S EXCEPT !.calls = Append(@, Call(S.nextId, "initialize",
                                                      config, initOut = "raise")),
                             !.plugin_instances[n] = Some(i),
                             !.nextId = @ + 1]
         IN IF initOut = "ok" THEN Ret(S1, Some(i)) ELSE Ret(S1, None)

\* mutant: the "instance already exists" test is missing
create_plugin_instance_NoExistingTest(S, n, config, initOut) ==
    IF n \notin S.loaded_plugins THEN Ret(S, None)
    ELSE LET c == Append(S.calls, Call(S.nextId, "initialize", config,
                                       initOut = "raise"))
         IN IF initOut = "ok"
            THEN LET i == NewInstance(S.nextId, config)
                 IN Ret([S EXCEPT !.calls = c,
                                  !.plugin_instances[n] = Some(i),
                                  !.nextId = @ + 1], Some(i))
            ELSE Ret([S EXCEPT !.calls = c], None)

\* initOut = outcome of instance.initialize: "ok", "false" or "raise".
\* ret is the Optional instance.
create_plugin_instance(S, n, config, initOut) ==
    IF n \notin S.loaded_plugins THEN Ret(S, None)
    ELSE IF IsSome(S.plugin_instances[n]) THEN Ret(S, S.plugin_instances[n])
    ELSE LET c == Append(S.calls, Call(S.nextId, "initialize", config,
                                       initOut = "raise"))
         IN IF initOut = "ok"
            THEN LET i == NewInstance(S.nextId, config)
                 IN Ret([S EXCEPT !.calls = c,
                                  !.plugin_instances[n] = Some(i),
                                  !.nextId = @ + 1], Some(i))
            ELSE Ret([S EXCEPT !.calls = c], None)

\* PluginLoader.reload_plugin
LoaderReload(S, n, cleanupOk, found, initOut) ==
    IF n \notin S.loaded_plugins THEN Ret(S, FALSE)
    ELSE LET config == IF IsSome(S.plugin_instances[n])
                       THEN Get(S.plugin_instances[n]).cfg ELSE EmptyCfg
             S1 == unload_plugin(S, n, cleanupOk)
             L == load_plugin(S1, n, found)
         IN IF L.ret
            THEN IF config # EmptyCfg
                 THEN Ret(create_plugin_instance(L.st, n, config, initOut).st,
                          TRUE)
                 ELSE Ret(L.st, TRUE)
            ELSE Ret(L.st, FALSE)

(* ----------------------------- PluginManager --------------------------- *)
\* dict.get(name, {}) on plugin_configs
ConfigOf(S, n) ==
    IF IsSome(S.plugin_configs[n]) THEN Get(S.plugin_configs[n]) ELSE EmptyCfg

\* Python truth value of the optional config argument: None and {} are false
Truthy(configArg) == IsSome(configArg) /\ Get(configArg) # EmptyCfg

register_event_handler(S, e, h) ==
    [S EXCEPT !.event_handlers[e] = Append(@, h)]

\* list.remove of the first occurrence, guarded by "handler in list"
RemoveFirst(s, h) ==
    IF \E i \in DOMAIN s : s[i] = h
    THEN LET k == CHOOSE i \in DOMAIN s :
                      s[i] = h /\ \A j \in 1..(i - 1) : s[j] # h
         IN SubSeq(s, 1, k - 1) \o SubSeq(s, k + 1, Len(s))
    ELSE s

unregister_event_handler(S, e, h) ==
    [S EXCEPT !.event_handlers[e] = RemoveFirst(@, h)]

\* the handlers of one event that _register_plugin_events adds for an object
PluginHandlers(n, id, e) ==
    (IF "LocustPlugin" \in PluginBases(n) /\ e \in Range(LocustEvents)
     THEN <<Handler(n, id, e)>> ELSE <<>>)
    \o
    (IF "MonitorPlugin" \in PluginBases(n) /\ e \in Range(MonitorEvents)
     THEN <<Handler(n, id, e)>> ELSE <<>>)

_register_plugin_events(S, n, i) ==
    [S EXCEPT !.event_handlers =
        [e \in Events |-> S.event_handlers[e] \o PluginHandlers(n, i.id, e)]]

\* handlers whose __self__ is the instance currently held for the name
\* mutant: the handlers of every owner are removed, not only those bound to
\* the instance of n
_unregister_plugin_events_ClearAll(S, n) ==
    IF ~IsSome(get_plugin_instance(S, n)) THEN S
    ELSE [S EXCEPT !.event_handlers = [e \in Events |-> <<>>]]

_unregister_plugin_events(S, n) ==
    IF ~IsSome(get_plugin_instance(S, n)) THEN S
    ELSE LET id == Get(get_plugin_instance(S, n)).id
         IN [S EXCEPT !.event_handlers =
                [e \in Events |->
                    SelectSeq(S.event_handlers[e], LAMBDA h : h.inst # id)]]

get_available_plugins(S) == S.loaded_plugins

\* the "enabled" and "has_instance" columns of get_plugin_status
get_plugin_status(S) ==
    [n \in get_available_plugins(S) |->
        [enabled |-> n \in S.enabled_plugins,
         has_instance |-> IsSome(S.plugin_instances[n]),
         config |-> ConfigOf(S, n)]]

\* get_plugin_info is not None
HasInfo(S, n) == IsSome(S.plugin_instances[n]) \/ n \in S.plugin_metadata

validate_plugin_dependencies(S, n) ==
    IF ~HasInfo(S, n) \/ Dependencies(n) = {} THEN TRUE
    ELSE \A d \in Dependencies(n) : d \in get_available_plugins(S)

\* enable_plugin past its "already enabled" test; enableOk = instance.enable()
\* returns without raising.  The call of instance.enable() stands in no try
\* block: its exception leaves enable_plugin (exc), after the instance was
\* registered by create_plugin_instance.
EnableNew(S, n, configArg, initOut, enableOk) ==
    LET plugin_config == IF Truthy(configArg) THEN Get(configArg)
                         ELSE ConfigOf(S, n)
        C == create_plugin_instance(S, n, plugin_config, initOut)
    IN IF ~IsSome(C.ret) THEN Ret(C.st, FALSE)
       ELSE IF ~enableOk
       THEN Ret([C.st EXCEPT
                   !.calls = Append(@, Call(Get(C.ret).id, "enable",
                                            EmptyCfg, TRUE)),
                   !.exc = TRUE], FALSE)
       ELSE LET i == InstEnable(Get(C.ret))
                S1 == [C.st EXCEPT
                         !.calls = Append(@, Call(i.id, "enable",
                                                  EmptyCfg, FALSE)),
                         !.plugin_instances[n] = Some(i),
                         !.enabled_plugins = @ \cup {n}]
            IN Ret(_register_plugin_events(S1, n, i), TRUE)

\* mutant: the "already enabled" test is missing
enable_plugin_Unguarded(S, n, configArg, initOut, enableOk) ==
    EnableNew(S, n, configArg, initOut, enableOk)

enable_plugin(S, n, configArg, initOut, enableOk) ==
    IF n \in S.enabled_plugins THEN Ret(S, TRUE)
    ELSE EnableNew(S, n, configArg, initOut, enableOk)

DisableOutcomes == {"ok", "disable_raises", "cleanup_raises"}

\* disable_plugin past its "not enabled" test
DisableEnabled(S, n, out) ==
    IF IsSome(get_plugin_instance(S, n)) /\ out = "disable_raises"
    THEN LET i == Get(get_plugin_instance(S, n))
         IN Ret([S EXCEPT !.calls = Append(@, Call(i.id, "disable",
                                                   EmptyCfg, TRUE))], FALSE)
    ELSE LET S1 ==
               IF IsSome(get_plugin_instance(S, n))
               THEN LET i == Get(get_plugin_instance(S, n))
                    IN [S EXCEPT
                          !.calls = @ \o
                             <<Call(i.id, "disable", EmptyCfg, FALSE),
                               Call(i.id, "cleanup", EmptyCfg,
                                    out = "cleanup_raises")>>,
                          !.plugin_instances[n] =
                             Some(InstCleanup(InstDisable(i)))]
               ELSE S
         IN IF IsSome(get_plugin_instance(S, n)) /\ out = "cleanup_raises"
            THEN Ret(S1, FALSE)
            ELSE LET S2 == _unregister_plugin_events(S1, n)
                 IN Ret([S2 EXCEPT !.enabled_plugins = @ \ {n}], TRUE)

\* mutant: the "not enabled" test is missing
disable_plugin_Unguarded(S, n, out) == DisableEnabled(S, n, out)

\* mutant: a successful disable also drops the instance from the instance map
disable_plugin_DropInstance(S, n, out) ==
    IF n \notin S.enabled_plugins THEN Ret(S, TRUE)
    ELSE LET R == DisableEnabled(S, n, out)
         IN IF R.ret
            THEN Ret([R.st EXCEPT !.plugin_instances[n] = None], TRUE)
            ELSE R

disable_plugin(S, n, out) ==
    IF n \notin S.enabled_plugins THEN Ret(S, TRUE)
    ELSE DisableEnabled(S, n, out)

reload_plugin(S, n, disOut, cleanupOk, found, initOut1, initOut2, enableOk) ==
    LET was_enabled == n \in S.enabled_plugins
        config == ConfigOf(S, n)
        S1 == IF was_enabled THEN disable_plugin(S, n, disOut).st ELSE S
        R == LoaderReload(S1, n, cleanupOk, found, initOut1)
    IN IF R.ret
       THEN IF was_enabled
            THEN enable_plugin(R.st, n, Some(config), initOut2, enableOk)
            ELSE Ret(R.st, TRUE)
       ELSE Ret(R.st, FALSE)

\* configureOk = instance.configure(config) returns without raising
configure_plugin(S, n, config, configureOk) ==
    LET S1 == [S EXCEPT !.plugin_configs[n] = Some(config)]
    IN IF IsSome(get_plugin_instance(S1, n))
       THEN LET i == Get(get_plugin_instance(S1, n))
            IN IF configureOk
               THEN Ret([S1 EXCEPT
                           !.calls = Append(@, Call(i.id, "configure",
                                                    config, FALSE)),
                           !.plugin_instances[n] =
                               Some(InstConfigure(i, config))], TRUE)
               ELSE Ret([S1 EXCEPT
                           !.calls = Append(@, Call(i.id, "configure",
                                                    config, TRUE))], FALSE)
       ELSE Ret(S1, TRUE)

\* mutant: no try/except around the handler, the first exception ends the loop
RECURSIVE Dispatch_NoCatch(_, _, _, _)
Dispatch_NoCatch(handlers, k, raising, log) ==
    IF k > Len(handlers) THEN log
    ELSE LET log1 == Append(log, Call(handlers[k].inst, handlers[k].method,
                                      EmptyCfg, k \in raising))
         IN IF k \in raising THEN log1
            ELSE Dispatch_NoCatch(handlers, k + 1, raising, log1)

\* the loop of trigger_event from position k on; raising = the positions
\* whose handler raises
RECURSIVE Dispatch(_, _, _, _)
Dispatch(handlers, k, raising, log) ==
    IF k > Len(handlers) THEN log
    ELSE Dispatch(handlers, k + 1, raising,
                  Append(log, Call(handlers[k].inst, handlers[k].method,
                                   EmptyCfg, k \in raising)))

trigger_event(S, e, raising) ==
    [S EXCEPT !.calls = Dispatch(S.event_handlers[e], 1, raising, @)]

(* ------------------------- persistence, construction ------------------- *)
\* the orders in which list(a_set) may enumerate a set
Orders(A) ==
    {s \in [1..Cardinality(A) -> A] : \A i, j \in DOMAIN s : s[i] = s[j] => i = j}

\* the JSON document save_config writes; order = list(self.enabled_plugins)
save_config(S, order) ==
    Some([enabled_plugins |-> order, plugin_configs |-> S.plugin_configs])

NoConfigs == [n \in Names |-> None]
NoHandlers == [e \in Events |-> <<>>]

\* the fields set by PluginManager.__init__ and PluginLoader.__init__
NewManager ==
    [loaded_plugins |-> {}, plugin_metadata |-> {},
     plugin_instances |-> [n \in Names |-> None], enabled_plugins |-> {},
     plugin_configs |-> NoConfigs, event_handlers |-> NoHandlers,
     nextId |-> 1, calls |-> <<>>, exc |-> FALSE]

\* mutant: the persisted plugin_configs are not read back
_load_config_EnabledOnly(S, file) ==
    IF ~IsSome(file) THEN S
    ELSE [S EXCEPT !.enabled_plugins = Range(Get(file).enabled_plugins)]

_load_config(S, file) ==
    IF ~IsSome(file) THEN S
    ELSE [S EXCEPT !.enabled_plugins = Range(Get(file).enabled_plugins),
                   !.plugin_configs = Get(file).plugin_configs]

_should_enable_plugin(S, n) ==
    IF n \notin S.enabled_plugins THEN FALSE
    ELSE validate_plugin_dependencies(S, n)

\* load_all_plugins: found = the discovered names whose load succeeds
RECURSIVE LoadAll(_, _, _)
LoadAll(S, order, found) ==
    IF order = <<>> THEN S
    ELSE LoadAll(load_plugin(S, Head(order), Head(order) \in found).st,
                 Tail(order), found)

\* the loop of discover_and_load_plugins over the loaded names
RECURSIVE EnableConfigured(_, _, _)
EnableConfigured(S, order, initOut) ==
    IF order = <<>> THEN S
    ELSE EnableConfigured(
             IF _should_enable_plugin(S, Head(order))
             THEN enable_plugin(S, Head(order), None, initOut, TRUE).st
             ELSE S,
             Tail(order), initOut)

\* PluginManager.__init__: order = the discovered names in discovery order,
\* found = those whose load succeeds
Construct(file, order, found, initOut) ==
    LET S1 == _load_config(NewManager, file)
        S2 == LoadAll(S1, order, found)
        loaded == SelectSeq(order, LAMBDA n : n \in S2.loaded_plugins)
    IN EnableConfigured(S2, loaded, initOut)

RECURSIVE DisableAll(_, _, _)
DisableAll(S, order, out) ==
    IF order = <<>> THEN S
    ELSE DisableAll(disable_plugin(S, Head(order), out).st, Tail(order), out)

(* ------------------------------ actions -------------------------------- *)
InitOutcomes == {"ok", "false", "raise"}

\* the outcomes of a callback are inputs only where the callback is invoked
HasInstance(n) == IsSome(plugin_instances[n])
InitOutcomesIf(called) == IF called THEN InitOutcomes ELSE {"ok"}
DisableOutcomesIf(called) == IF called THEN DisableOutcomes ELSE {"ok"}
BooleanIf(called) == IF called THEN BOOLEAN ELSE {TRUE}
ConfigArgs(n) == {None} \cup {Some(c) : c \in ConfigsFor(n)}

Op(op, name) == [op |-> op, name |-> name]

\* the threads that call the Manager
Threads == {"t1", "t2"}

\* the objects' fields after a step that left them as in S
Fields(S) ==
    /\ loaded_plugins' = S.loaded_plugins
    /\ plugin_metadata' = S.plugin_metadata
    /\ plugin_instances' = S.plugin_instances
    /\ enabled_plugins' = S.enabled_plugins
    /\ plugin_configs' = S.plugin_configs
    /\ event_handlers' = S.event_handlers
    /\ nextId' = S.nextId
    /\ calls' = S.calls

\* the state after an operation that left the objects in S and returned r,
\* called by one thread while no other call is in progress
Becomes(S, r, op) ==
    /\ ops < MaxOps
    /\ ops' = ops + 1
    /\ Fields(S)
    /\ result' = r
    /\ escaped' = S.exc
    /\ lastOp' = op
    /\ UNCHANGED <<lock, stack, actor>>

\* first construction, before any config file exists: _load_config finds no
\* file, so no name is enabled and no initialize is invoked
Init ==
    \E found \in SUBSET Names, initOut \in InitOutcomesIf(FALSE) :
        LET S == Construct(None, DiscoveryOrder, found, initOut)
        IN /\ loaded_plugins = S.loaded_plugins
           /\ plugin_metadata = S.plugin_metadata
           /\ plugin_instances = S.plugin_instances
           /\ enabled_plugins = S.enabled_plugins
           /\ plugin_configs = S.plugin_configs
           /\ event_handlers = S.event_handlers
           /\ nextId = S.nextId
           /\ calls = S.calls
           /\ config_file = None
           /\ result = TRUE
           /\ escaped = FALSE
           /\ lastOp = Op("construct", "")
           /\ ops = 0
           /\ lock = None
           /\ stack = [t \in Threads |-> <<>>]
           /\ actor = None

\* a new process constructs its PluginManager from the config file
Restart ==
    \E found \in SUBSET Names :
    \E initOut \in InitOutcomesIf(
            IsSome(config_file)
            /\ Range(Get(config_file).enabled_plugins) \cap found # {}) :
        /\ Becomes(Construct(config_file, DiscoveryOrder, found, initOut), TRUE,
                   Op("construct", ""))
        /\ UNCHANGED config_file

Enable(n) ==
    \E configArg \in ConfigArgs(n),
       initOut \in InitOutcomesIf(n \notin enabled_plugins
                                  /\ n \in loaded_plugins /\ ~HasInstance(n)) :
    \E enableOk \in BooleanIf(n \notin enabled_plugins /\ n \in loaded_plugins
                              /\ initOut = "ok") :
        LET R == enable_plugin(State, n, configArg, initOut, enableOk)
        IN /\ Becomes(R.st, R.ret, Op("enable", n))
           /\ UNCHANGED config_file

Disable(n) ==
    \E out \in DisableOutcomesIf(n \in enabled_plugins /\ HasInstance(n)) :
        LET R == disable_plugin(State, n, out)
        IN /\ Becomes(R.st, R.ret, Op("disable", n))
           /\ UNCHANGED config_file

Reload(n) ==
    \E disOut \in DisableOutcomesIf(n \in enabled_plugins /\ HasInstance(n)),
       cleanupOk \in BooleanIf(n \in loaded_plugins /\ HasInstance(n)),
       found \in BooleanIf(n \in loaded_plugins),
       initOut1 \in InitOutcomesIf(n \in loaded_plugins /\ HasInstance(n)),
       initOut2 \in InitOutcomesIf(n \in loaded_plugins
                                   /\ n \in enabled_plugins) :
    \E enableOk \in BooleanIf(n \in loaded_plugins /\ n \in enabled_plugins
                              /\ found /\ initOut2 = "ok") :
        LET R == reload_plugin(State, n, disOut, cleanupOk, found,
                               initOut1, initOut2, enableOk)
        IN /\ Becomes(R.st, R.ret, Op("reload", n))
           /\ UNCHANGED config_file

Configure(n) ==
    \E config \in ConfigsFor(n), configureOk \in BooleanIf(HasInstance(n)) :
        LET R == configure_plugin(State, n, config, configureOk)
        IN /\ Becomes(R.st, R.ret, Op("configure", n))
           /\ UNCHANGED config_file

Trigger ==
    \E e \in TriggerEvents :
    \E raising \in SUBSET (1..Len(event_handlers[e])) :
        /\ Becomes(trigger_event(State, e, raising), TRUE, Op("trigger", e))
        /\ UNCHANGED config_file

RegisterHandler ==
    \E e \in ExternalEvents, h \in ExternalHandlers :
        /\ Becomes(register_event_handler(State, e, Handler(External, 0, h)),
                   TRUE, Op("register_handler", e))
        /\ UNCHANGED config_file

UnregisterHandler ==
    \E e \in ExternalEvents, h \in ExternalHandlers :
        /\ Becomes(unregister_event_handler(State, e, Handler(External, 0, h)),
                   TRUE, Op("unregister_handler", e))
        /\ UNCHANGED config_file

SaveConfig ==
    \E order \in Orders(enabled_plugins) :
        /\ config_file' = save_config(State, order)
        /\ Becomes(State, TRUE, Op("save_config", ""))

Shutdown ==
    \E order \in Orders(enabled_plugins),
       out \in DisableOutcomesIf(\E n \in enabled_plugins : HasInstance(n)) :
        LET S == DisableAll(State, order, out)
        IN \E saved \in Orders(S.enabled_plugins) :
            /\ config_file' = save_config(S, saved)
            /\ Becomes(S, TRUE, Op("shutdown", ""))

LoaderLoad(n) ==
    \E found \in BooleanIf(n \notin loaded_plugins) :
        LET R == load_plugin(State, n, found)
        IN /\ Becomes(R.st, R.ret, Op("load", n))
           /\ UNCHANGED config_file

LoaderUnload(n) ==
    \E cleanupOk \in BooleanIf(HasInstance(n)) :
        /\ Becomes(unload_plugin(State, n, cleanupOk), TRUE, Op("unload", n))
        /\ UNCHANGED config_file

LoaderCreateInstance(n) ==
    \E config \in ConfigsFor(n),
       initOut \in InitOutcomesIf(n \in loaded_plugins /\ ~HasInstance(n)) :
        LET R == create_plugin_instance(State, n, config, initOut)
        IN /\ Becomes(R.st, IsSome(R.ret), Op("create_instance", n))
           /\ UNCHANGED config_file

LoaderReloadPlugin(n) ==
    \E cleanupOk \in BooleanIf(n \in loaded_plugins /\ HasInstance(n)),
       found \in BooleanIf(n \in loaded_plugins),
       initOut \in InitOutcomesIf(n \in loaded_plugins /\ HasInstance(n)) :
        LET R == LoaderReload(State, n, cleanupOk, found, initOut)
        IN /\ Becomes(R.st, R.ret, Op("loader_reload", n))
           /\ UNCHANGED config_file

Next ==
    \/ Restart
    \/ \E n \in Names : Enable(n)
    \/ \E n \in Names : Disable(n)
    \/ \E n \in Names : Reload(n)
    \/ \E n \in Names : Configure(n)
    \/ Trigger
    \/ RegisterHandler
    \/ UnregisterHandler
    \/ SaveConfig
    \/ Shutdown
    \/ \E n \in Names : LoaderLoad(n)
    \/ \E n \in Names : LoaderUnload(n)
    \/ \E n \in Names : LoaderCreateInstance(n)
    \/ \E n \in Names : LoaderReloadPlugin(n)

Spec == Init /\ [][Next]_vars

(* --------------- calls of several threads, with the lock --------------- *)
\* A frame is a call into the Manager that has not returned.  Its pc:
\*   "acquire"   at "with self.lock:", waiting for the lock
\*   "locked"    inside the with block, before the plugin code it calls
\*   "loader"    reload_plugin at plugin_loader.reload_plugin (no with block)
\*   "callback"  plugin code called by the operation is running
\*   "release"   leaving the with block
\*   "done"      reload_plugin about to return
\* arg is the configuration argument, was_enabled the snapshot of
\* reload_plugin.  A frame of trigger_event holds the state of its for loop:
\* k the position of the list iterator, running the handler it fetched
\* there, log the handlers invoked so far, and start, the list as it was when
\* trigger_event was called.
Frame(op, name, pc, arg, was_enabled) ==
    [op |-> op, name |-> name, pc |-> pc, arg |-> arg,
     was_enabled |-> was_enabled,
     k |-> 0, running |-> None, log |-> <<>>, start |-> <<>>]

\* trigger_event has fetched the first handler of the list
TriggerFrame(e, handlers) ==
    [Frame("trigger", e, "callback", None, FALSE) EXCEPT
        !.k = 1, !.running = Some(handlers[1]), !.start = handlers]

\* the operations whose body is a "with self.lock:" block
LockedOps == {"enable", "disable", "configure"}

Top(t) == stack[t][Len(stack[t])]
Push(frames, f) == Append(frames, f)
Pop(frames) == SubSeq(frames, 1, Len(frames) - 1)
Goto(frames, pc) == [frames EXCEPT ![Len(frames)].pc = pc]

\* a call is made by the driver (no frame) or by plugin code that a callback
\* of the thread is running
CanCall(t) ==
    /\ ops < MaxOps
    /\ IF stack[t] = <<>> THEN TRUE ELSE Top(t).pc = "callback"

\* the operation of frame f is about to run plugin code
RunsPluginCode(f) ==
    CASE f.op = "enable" ->
             f.name \notin enabled_plugins /\ f.name \in loaded_plugins
      [] f.op = "disable" -> f.name \in enabled_plugins /\ HasInstance(f.name)
      [] f.op = "configure" -> HasInstance(f.name)
      [] f.op = "reload" -> f.name \in loaded_plugins /\ HasInstance(f.name)
      [] f.op = "trigger" -> event_handlers[f.name] # <<>>

\* what the operation of frame f has assigned before its plugin code runs
Before(f) ==
    IF f.op = "configure"
    THEN [State EXCEPT !.plugin_configs[f.name] = f.arg]
    ELSE State

\* the outcomes of the operation of frame f, one for each way its plugin
\* code can end.  A frame at "callback" has passed the test its operation
\* starts with ("already enabled", "not enabled") and does not repeat it.
Effects(f) ==
    CASE f.op = "enable" ->
             IF f.pc = "callback"
             THEN {EnableNew(State, f.name, f.arg, i, e) :
                      i \in InitOutcomesIf(~HasInstance(f.name)),
                      e \in BOOLEAN}
             ELSE {enable_plugin(State, f.name, f.arg, "ok", TRUE)}
      [] f.op = "disable" ->
             IF f.pc = "callback"
             THEN {DisableEnabled(State, f.name, o) : o \in DisableOutcomes}
             ELSE {disable_plugin(State, f.name, "ok")}
      [] f.op = "configure" ->
             {configure_plugin(State, f.name, Get(f.arg), o) :
                 o \in BooleanIf(RunsPluginCode(f))}
      [] f.op = "reload" ->
             {LoaderReload(State, f.name, c, found, i) :
                 c \in BooleanIf(RunsPluginCode(f)),
                 found \in BooleanIf(f.name \in loaded_plugins),
                 i \in InitOutcomesIf(RunsPluginCode(f))}

\* the frames of a thread after the operation of its top frame had outcome R
After(frames, R) ==
    LET f == frames[Len(frames)]
    IN CASE f.op \in LockedOps -> Goto(frames, "release")
         [] f.op = "reload" ->
                IF R.ret /\ f.was_enabled
                THEN Push(Goto(frames, "done"),
                          Frame("enable", f.name, "acquire", f.arg, FALSE))
                ELSE Goto(frames, "done")

ObjectsUnchanged ==
    UNCHANGED <<loaded_plugins, plugin_metadata, plugin_instances,
                enabled_plugins, plugin_configs, event_handlers, nextId, calls>>

\* the step of thread t that ends the operation of its top frame
Finish(t) ==
    \E R \in Effects(Top(t)) :
        /\ Fields(R.st)
        /\ result' = R.ret
        /\ escaped' = R.st.exc
        /\ lastOp' = Op(Top(t).op, Top(t).name)
        /\ stack' = [stack EXCEPT ![t] = After(@, R)]
        /\ actor' = Some(t)
        /\ UNCHANGED <<lock, ops, config_file>>

\* enable_plugin, disable_plugin or configure_plugin is called
CallLocked(t) ==
    /\ CanCall(t)
    /\ \E op \in LockedOps, n \in Names :
       \E arg \in (CASE op = "enable" -> ConfigArgs(n)
                     [] op = "disable" -> {None}
                     [] op = "configure" -> {Some(c) : c \in ConfigsFor(n)}) :
           stack' = [stack EXCEPT
                       ![t] = Push(@, Frame(op, n, "acquire", arg, FALSE))]
    /\ ops' = ops + 1
    /\ actor' = Some(t)
    /\ ObjectsUnchanged
    /\ UNCHANGED <<lock, lastOp, result, escaped, config_file>>

\* mutant: the with block is entered whoever holds the lock
Acquire_NoExclusion(t) ==
    /\ stack[t] # <<>>
    /\ Top(t).pc = "acquire"
    /\ lock' = Some(t)
    /\ stack' = [stack EXCEPT ![t] = Goto(@, "locked")]
    /\ actor' = Some(t)
    /\ ObjectsUnchanged
    /\ UNCHANGED <<ops, lastOp, result, escaped, config_file>>

\* "with self.lock:" is entered; threading.Lock is not reentrant
Acquire(t) ==
    /\ stack[t] # <<>>
    /\ Top(t).pc = "acquire"
    /\ lock = None
    /\ lock' = Some(t)
    /\ stack' = [stack EXCEPT ![t] = Goto(@, "locked")]
    /\ actor' = Some(t)
    /\ ObjectsUnchanged
    /\ UNCHANGED <<ops, lastOp, result, escaped, config_file>>

\* the operation runs up to its first call of plugin code, or to its end if
\* it calls none
Run(t) ==
    /\ stack[t] # <<>>
    /\ Top(t).pc \in {"locked", "loader"}
    /\ IF RunsPluginCode(Top(t))
       THEN /\ Fields(Before(Top(t)))
            /\ stack' = [stack EXCEPT ![t] = Goto(@, "callback")]
            /\ actor' = Some(t)
            /\ UNCHANGED <<lock, ops, lastOp, result, escaped, config_file>>
       ELSE Finish(t)

\* the plugin code returns or raises and the operation runs to its end
Return(t) ==
    /\ stack[t] # <<>>
    /\ Top(t).pc = "callback"
    /\ Top(t).op # "trigger"
    /\ Finish(t)

\* the with block is left, by return or by exception
Release(t) ==
    /\ stack[t] # <<>>
    /\ Top(t).pc = "release"
    /\ lock' = None
    /\ stack' = [stack EXCEPT ![t] = Pop(@)]
    /\ actor' = Some(t)
    /\ ObjectsUnchanged
    /\ UNCHANGED <<ops, lastOp, result, escaped, config_file>>

\* trigger_event is called: it takes no lock
CallTrigger(t) ==
    /\ CanCall(t)
    /\ \E e \in TriggerEvents :
        LET f == IF event_handlers[e] = <<>>
                 THEN Frame("trigger", e, "callback", None, FALSE)
                 ELSE TriggerFrame(e, event_handlers[e])
        IN IF RunsPluginCode(f)
           THEN /\ stack' = [stack EXCEPT ![t] = Push(@, f)]
                /\ ObjectsUnchanged
                /\ UNCHANGED <<lastOp, result, escaped>>
           ELSE /\ Fields(State)
                /\ result' = TRUE
                /\ escaped' = FALSE
                /\ lastOp' = Op("trigger", e)
                /\ UNCHANGED stack
    /\ ops' = ops + 1
    /\ actor' = Some(t)
    /\ UNCHANGED <<lock, config_file>>

\* the handler that trigger_event is running returns or raises, and the for
\* loop goes on: its iterator moves to the next position of the list that
\* event_handlers holds at that moment, the list object it was created on
NextHandler(t) ==
    /\ stack[t] # <<>>
    /\ Top(t).pc = "callback"
    /\ Top(t).op = "trigger"
    /\ \E raised \in BOOLEAN :
        LET f == Top(t)
            h == Get(f.running)
            log == Append(f.log, Call(h.inst, h.method, EmptyCfg, raised))
            handlers == event_handlers[f.name]
        IN IF f.k + 1 <= Len(handlers)
           THEN /\ stack' = [stack EXCEPT
                               ![t] = [@ EXCEPT
                                   ![Len(stack[t])] =
                                       [f EXCEPT
                                           !.k = f.k + 1,
                                           !.running = Some(handlers[f.k + 1]),
                                           !.log = log]]]
                /\ ObjectsUnchanged
                /\ UNCHANGED <<lastOp, result, escaped>>
           ELSE /\ stack' = [stack EXCEPT ![t] = Pop(@)]
                /\ Fields([State EXCEPT !.calls = log])
                /\ result' = TRUE
                /\ escaped' = FALSE
                /\ lastOp' = Op("trigger", f.name)
    /\ actor' = Some(t)
    /\ UNCHANGED <<lock, ops, config_file>>

\* register_event_handler, called and returned: it takes no lock
CallRegisterHandler(t) ==
    /\ CanCall(t)
    /\ \E e \in ExternalEvents, h \in ExternalHandlers :
        /\ Fields(register_event_handler(State, e, Handler(External, 0, h)))
        /\ lastOp' = Op("register_handler", e)
    /\ result' = TRUE
    /\ escaped' = FALSE
    /\ ops' = ops + 1
    /\ actor' = Some(t)
    /\ UNCHANGED <<lock, stack, config_file>>

\* unregister_event_handler, called and returned: it takes no lock
CallUnregisterHandler(t) ==
    /\ CanCall(t)
    /\ \E e \in ExternalEvents, h \in ExternalHandlers :
        /\ Fields(unregister_event_handler(State, e, Handler(External, 0, h)))
        /\ lastOp' = Op("unregister_handler", e)
    /\ result' = TRUE
    /\ escaped' = FALSE
    /\ ops' = ops + 1
    /\ actor' = Some(t)
    /\ UNCHANGED <<lock, stack, config_file>>

\* reload_plugin is called: it takes no lock, snapshots was_enabled and the
\* configuration, and calls disable_plugin if the plugin was enabled
CallReload(t) ==
    /\ CanCall(t)
    /\ \E n \in Names :
        LET f == Frame("reload", n, "loader", Some(ConfigOf(State, n)),
                       n \in enabled_plugins)
        IN stack' = [stack EXCEPT
                       ![t] = IF f.was_enabled
                              THEN Push(Push(@, f),
                                        Frame("disable", n, "acquire", None,
                                              FALSE))
                              ELSE Push(@, f)]
    /\ ops' = ops + 1
    /\ actor' = Some(t)
    /\ ObjectsUnchanged
    /\ UNCHANGED <<lock, lastOp, result, escaped, config_file>>

\* reload_plugin returns
ReloadDone(t) ==
    /\ stack[t] # <<>>
    /\ Top(t).pc = "done"
    /\ stack' = [stack EXCEPT ![t] = Pop(@)]
    /\ actor' = Some(t)
    /\ ObjectsUnchanged
    /\ UNCHANGED <<lock, ops, lastOp, result, escaped, config_file>>

LockNext ==
    \E t \in Threads :
        \/ CallLocked(t)
        \/ Acquire(t)
        \/ Run(t)
        \/ Return(t)
        \/ Release(t)
        \/ CallTrigger(t)
        \/ NextHandler(t)
        \/ CallRegisterHandler(t)
        \/ CallUnregisterHandler(t)
        \/ CallReload(t)
        \/ ReloadDone(t)

LockSpec == Init /\ [][LockNext]_vars

(* ------------- dispatch of an event while plugins are disabled ---------- *)
\* a Manager that loaded every plugin and then enabled the two LocustPlugins
\* p and q, in this order: each of the LocustEvents has the handler of p
\* followed by the handler of q
TwoEnabled(p, q) ==
    LET S0 == Construct(None, DiscoveryOrder, Names, "ok")
        S1 == enable_plugin(S0, p, None, "ok", TRUE).st
    IN enable_plugin(S1, q, None, "ok", TRUE).st

DispatchInit ==
    \E p, q \in {"MissingPlugin", "Notifier"} :
        /\ p # q
        /\ LET S == TwoEnabled(p, q)
           IN /\ loaded_plugins = S.loaded_plugins
              /\ plugin_metadata = S.plugin_metadata
              /\ plugin_instances = S.plugin_instances
              /\ enabled_plugins = S.enabled_plugins
              /\ plugin_configs = S.plugin_configs
              /\ event_handlers = S.event_handlers
              /\ nextId = S.nextId
              /\ calls = S.calls
        /\ config_file = None
        /\ result = TRUE
        /\ escaped = FALSE
        /\ lastOp = Op("enable", q)
        /\ ops = 0
        /\ lock = None
        /\ stack = [t \in Threads |-> <<>>]
        /\ actor = None

\* disable_plugin is called, by the driver of a thread or by a handler that
\* trigger_event is running on it
CallDisable(t) ==
    /\ CanCall(t)
    /\ \E n \in Names :
           stack' = [stack EXCEPT
                       ![t] = Push(@, Frame("disable", n, "acquire", None,
                                            FALSE))]
    /\ ops' = ops + 1
    /\ actor' = Some(t)
    /\ ObjectsUnchanged
    /\ UNCHANGED <<lock, lastOp, result, escaped, config_file>>

DispatchNext ==
    \E t \in Threads :
        \/ CallTrigger(t)
        \/ NextHandler(t)
        \/ CallDisable(t)
        \/ Acquire(t)
        \/ Run(t)
        \/ Return(t)
        \/ Release(t)

DispatchSpec == DispatchInit /\ [][DispatchNext]_vars

(* ------------------- the Manager's own operations only ------------------ *)
\* the subsystem driven through PluginManager alone: the Loader is reached
\* only through the calls the Manager makes
ManagerNext ==
    \/ \E n \in Names : Enable(n)
    \/ \E n \in Names : Disable(n)
    \/ \E n \in Names : Reload(n)
    \/ \E n \in Names : Configure(n)
    \/ Shutdown

ManagerSpec == Init /\ [][ManagerNext]_vars

(* ------------------- enable_plugin called by two threads ---------------- *)
\* enable_plugin is called, by the driver of a thread or by plugin code that
\* is running on it
CallEnable(t) ==
    /\ CanCall(t)
    /\ \E n \in Names : \E arg \in ConfigArgs(n) :
           stack' = [stack EXCEPT
                       ![t] = Push(@, Frame("enable", n, "acquire", arg,
                                            FALSE))]
    /\ ops' = ops + 1
    /\ actor' = Some(t)
    /\ ObjectsUnchanged
    /\ UNCHANGED <<lock, lastOp, result, escaped, config_file>>

EnableNext ==
    \E t \in Threads :
        \/ CallEnable(t)
        \/ Acquire(t)
        \/ Run(t)
        \/ Return(t)
        \/ Release(t)

EnableSpec == Init /\ [][EnableNext]_vars

(* ============================== properties ============================= *)
\* the routing table holds an entry owned by plugin p
OwnsEntry(p) ==
    \E e \in Events : \E k \in DOMAIN event_handlers[e] :
        event_handlers[e][k].owner = p

\* every handler _register_plugin_events adds for object id of n is routed
HandlersRouted(n, id) ==
    \A e \in Events : \A k \in DOMAIN PluginHandlers(n, id, e) :
        PluginHandlers(n, id, e)[k] \in Range(event_handlers[e])

\* n's type takes part in some event category
HasEventCapability(n) ==
    PluginBases(n) \cap {"LocustPlugin", "MonitorPlugin"} # {}

DependenciesLoaded(n) ==
    n \in loaded_plugins /\ Dependencies(n) \subseteq loaded_plugins

\* C1: enable(n) returns true and enables n only if, when it is called, n and
\* all of n's declared dependencies are loaded types; otherwise it returns
\* false and leaves EnabledSet, the instance map and the routing table as
\* they were.
C1_EnableOnlyWithDependencies ==
    [][\A n \in Names :
          (lastOp' = Op("enable", n) /\ ~DependenciesLoaded(n)) =>
              /\ ~result'
              /\ UNCHANGED <<enabled_plugins, plugin_instances,
                             event_handlers>>]_vars

\* C2: whenever enable(n) has returned true, n is enabled, has a live
\* instance, all capability handlers of that instance are routed and
\* status()[n].enabled is true.
C2_EnableTrueMeansLive ==
    \A n \in Names :
        (lastOp = Op("enable", n) /\ result) =>
            /\ n \in enabled_plugins
            /\ HasInstance(n)
            /\ HandlersRouted(n, Get(plugin_instances[n]).id)
            /\ n \in DOMAIN get_plugin_status(State)
            /\ get_plugin_status(State)[n].enabled

\* C3: after disable(n) has returned, the routing table holds no entry owned
\* by n (so no later trigger reaches a handler of n).
C3_DisableRemovesEntries ==
    \A n \in Names : lastOp = Op("disable", n) => ~OwnsEntry(n)

\* C4: trigger(e) invokes every handler registered under e exactly once, in
\* registration order, whether or not earlier handlers raised, and returns
\* normally.
C4_TriggerInvokesAllInOrder ==
    [][lastOp'.op = "trigger" =>
          LET handlers == event_handlers[lastOp'.name]
          IN /\ result'
             /\ Len(calls') = Len(handlers)
             /\ \A k \in DOMAIN handlers :
                   /\ calls'[k].inst = handlers[k].inst
                   /\ calls'[k].method = handlers[k].method]_vars

\* C4 witness: a trigger whose first handler raised and whose second handler
\* was still invoked
C4_Witness ==
    /\ lastOp.op = "trigger"
    /\ Len(calls) >= 2
    /\ calls[1].raised
    /\ calls[2].method # calls[1].method \/ calls[2].inst # calls[1].inst

\* C5: a Manager reload(n) that returns true for a plugin enabled with
\* configuration c ends with n enabled and its live instance initialized
\* with c; reload of a plugin that was not enabled leaves it not enabled.
C5_ReloadKeepsConfig ==
    [][\A n \in Names :
          (lastOp' = Op("reload", n) /\ result') =>
              /\ (n \in enabled_plugins /\ HasInstance(n)) =>
                    /\ n \in enabled_plugins'
                    /\ IsSome(plugin_instances'[n])
                    /\ Get(plugin_instances'[n]).init_cfg =
                           Get(plugin_instances[n]).cfg
              /\ n \notin enabled_plugins => n \notin enabled_plugins']_vars

\* C6: enable(n) called right after an enable(n) that returned true returns
\* true and changes nothing: same EnabledSet, same single instance (no
\* callback, no second initialize), same routing table, in which each handler
\* of the instance stands at most once.
C6_EnableIdempotent ==
    [][\A n \in Names :
          (lastOp = Op("enable", n) /\ result /\ lastOp' = Op("enable", n)) =>
              /\ result'
              /\ calls' = <<>>
              /\ UNCHANGED <<enabled_plugins, plugin_instances, event_handlers,
                             loaded_plugins, plugin_metadata, plugin_configs,
                             nextId>>
              /\ IsSome(plugin_instances'[n]) =>
                    \A e \in Events :
                        Cardinality({k \in DOMAIN event_handlers'[e] :
                            event_handlers'[e][k].inst =
                                Get(plugin_instances'[n]).id}) <= 1]_vars

\* C6 witness: a second enable in a row of a plugin that holds an instance
\* and routed handlers
C6_Witness ==
    /\ lastOp = Op("enable", "Notifier")
    /\ result
    /\ calls = <<>>
    /\ HasInstance("Notifier")
    /\ OwnsEntry("Notifier")

\* C7: disable(n) of a name that is not enabled returns true, invokes no
\* plugin callback and changes nothing.
C7_DisableNotEnabledIsNoop ==
    [][\A n \in Names :
          (lastOp' = Op("disable", n) /\ n \notin enabled_plugins) =>
              /\ result'
              /\ calls' = <<>>
              /\ UNCHANGED <<enabled_plugins, event_handlers, plugin_instances,
                             plugin_configs, loaded_plugins, plugin_metadata,
                             config_file>>]_vars

\* C7 witness: disable of a plugin that is not enabled but still holds the
\* instance of an earlier enable
C7_Witness ==
    \E n \in Names :
        /\ lastOp = Op("disable", n)
        /\ result
        /\ calls = <<>>
        /\ n \notin enabled_plugins
        /\ HasInstance(n)

C9_EnabledSubsetOfLoaded == enabled_plugins \subseteq loaded_plugins

\* C10: the routing table holds entries owned by p only while p is enabled,
\* and holds them whenever an enabled p has event capabilities.
C10_EntriesIffEnabled ==
    \A p \in Names :
        /\ OwnsEntry(p) => p \in enabled_plugins
        /\ (p \in enabled_plugins /\ HasEventCapability(p)) => OwnsEntry(p)

\* C11: after a construction from a config file, every persisted enabled name
\* that is a loaded type and passes dependency validation is enabled, had
\* initialize called with its persisted configuration and, where that left
\* an instance, has the instance's capability handlers routed.
C11_ConstructionEnablesPersisted ==
    (lastOp.op = "construct" /\ IsSome(config_file)) =>
        \A n \in Range(Get(config_file).enabled_plugins) :
            (n \in loaded_plugins /\ validate_plugin_dependencies(State, n)) =>
                /\ n \in enabled_plugins
                /\ \E k \in DOMAIN calls :
                      /\ calls[k].method = "initialize"
                      /\ calls[k].arg = ConfigOf(State, n)
                /\ HasInstance(n) =>
                      HandlersRouted(n, Get(plugin_instances[n]).id)

\* the callbacks of the last operation ended with a failed initialize:
\* instance.enable() follows every initialize that succeeds
InitializeFailed ==
    /\ calls # <<>>
    /\ calls[Len(calls)].method = "initialize"

\* C12: if initialize returns failure or raises during enable(n), enable(n)
\* returns false, no instance of n is recorded, n is not enabled and the
\* routing table holds no handler of the discarded object.
C12_FailedInitializeDiscards ==
    \A n \in Names :
        (lastOp = Op("enable", n) /\ InitializeFailed) =>
            /\ ~result
            /\ ~HasInstance(n)
            /\ n \notin enabled_plugins
            /\ \A e \in Events : \A k \in DOMAIN event_handlers[e] :
                  event_handlers[e][k].inst # calls[Len(calls)].inst

\* C12 witness: an enable whose initialize returned failure without raising
C12_Witness ==
    \E n \in Names :
        /\ lastOp = Op("enable", n)
        /\ InitializeFailed
        /\ ~calls[Len(calls)].raised
        /\ ~result

\* C13: if disable() or cleanup() raises during disable(n), the transition
\* still completes: n is not enabled and the routing table holds no entry
\* owned by n.
C13_DisableCompletesWhenCallbackRaises ==
    \A n \in Names :
        (lastOp = Op("disable", n) /\ \E k \in DOMAIN calls : calls[k].raised) =>
            /\ n \notin enabled_plugins
            /\ ~OwnsEntry(n)

\* C14: the lock is not held by a thread while plugin code called by one of
\* its operations runs, so no thread waits at "with self.lock:" for the lock
\* it holds itself.
C14_NoLockDuringCallbacks ==
    \A t \in Threads :
        /\ \A k \in DOMAIN stack[t] :
              stack[t][k].pc = "callback" => lock # Some(t)
        /\ ~(stack[t] # <<>> /\ Top(t).pc = "acquire" /\ lock = Some(t))

\* C15: every step that changes EnabledSet, the loaded-type map or the
\* routing table is taken by a thread that holds the lock.
C15_MutationsUnderLock ==
    [][(\/ enabled_plugins' # enabled_plugins
        \/ loaded_plugins' # loaded_plugins
        \/ event_handlers' # event_handlers) =>
           /\ IsSome(actor')
           /\ lock = actor'
           /\ lock' = actor']_vars

\* C16: create_instance(n, config) returns none without side effects if n is
\* not loaded, returns the registered instance without constructing or
\* initializing another one if n has an instance, and otherwise calls
\* initialize(config) once on a new object and registers that object, as the
\* only instance of n, exactly if initialize succeeds.
C16_CreateInstanceAtMostOne ==
    [][\A n \in Names :
          lastOp' = Op("create_instance", n) =>
              /\ n \notin loaded_plugins =>
                    /\ ~result'
                    /\ calls' = <<>>
                    /\ UNCHANGED <<plugin_instances, nextId, loaded_plugins,
                                   plugin_metadata, enabled_plugins,
                                   event_handlers, plugin_configs>>
              /\ (n \in loaded_plugins /\ HasInstance(n)) =>
                    /\ result'
                    /\ calls' = <<>>
                    /\ UNCHANGED <<plugin_instances, nextId>>
              /\ (n \in loaded_plugins /\ ~HasInstance(n)) =>
                    /\ Len(calls') = 1
                    /\ calls'[1].method = "initialize"
                    /\ \A m \in Names \ {n} :
                          plugin_instances'[m] = plugin_instances[m]
                    /\ IF result'
                       THEN /\ ~calls'[1].raised
                            /\ IsSome(plugin_instances'[n])
                            /\ Get(plugin_instances'[n]).id = calls'[1].inst
                            /\ Get(plugin_instances'[n]).init_cfg =
                                   calls'[1].arg
                            /\ \A m \in Names \ {n} :
                                  IsSome(plugin_instances[m]) =>
                                      Get(plugin_instances[m]).id #
                                          calls'[1].inst
                       ELSE plugin_instances'[n] = None]_vars

\* C16 witness: create_instance of a plugin that has an instance returned it
\* and called no plugin code
C16_Witness ==
    \E n \in Names :
        /\ lastOp = Op("create_instance", n)
        /\ result
        /\ calls = <<>>
        /\ HasInstance(n)

\* C17: after unload(n) has returned, n is in none of the loaded-type map,
\* the metadata map and the instance map, whether or not cleanup() raised.
C17_UnloadRemovesEverything ==
    \A n \in Names :
        lastOp = Op("unload", n) =>
            /\ n \notin loaded_plugins
            /\ n \notin plugin_metadata
            /\ ~HasInstance(n)

\* C18: a load(n) that returns failure has registered nothing: the
\* loaded-type map, the metadata map and the instance map are as before the
\* call, and n is not a loaded type.
C18_FailedLoadRegistersNothing ==
    [][\A n \in Names :
          (lastOp' = Op("load", n) /\ ~result') =>
              /\ UNCHANGED <<loaded_plugins, plugin_metadata, plugin_instances>>
              /\ n \notin loaded_plugins'
              /\ n \notin plugin_metadata']_vars

\* C18 witness: a failed load while another type is loaded
C18_Witness ==
    \E n \in Names :
        /\ lastOp = Op("load", n)
        /\ ~result
        /\ loaded_plugins # {}

\* C19: no Manager operation ends with an exception of plugin code reaching
\* its caller.
C19_NoExceptionEscapes ==
    lastOp.op \in {"enable", "disable", "configure", "reload", "trigger",
                   "shutdown"} => ~escaped

\* C20: configure(n, c) stores c as the persisted configuration of n and
\* leaves the other plugins' configurations, EnabledSet and the routing table
\* as they were; if n has an instance it calls configure(c) on it once, and
\* when that call returns the instance's configuration is its prior
\* configuration with every key of c overwritten by c's value.
C20_ConfigureMerges ==
    [][\A n \in Names :
          lastOp' = Op("configure", n) =>
              /\ IsSome(plugin_configs'[n])
              /\ \A m \in Names \ {n} : plugin_configs'[m] = plugin_configs[m]
              /\ UNCHANGED <<enabled_plugins, event_handlers>>
              /\ IF HasInstance(n)
                 THEN LET c == Get(plugin_configs'[n])
                          old == Get(plugin_instances[n]).cfg
                      IN /\ IsSome(plugin_instances'[n])
                         /\ calls' = <<Call(Get(plugin_instances[n]).id,
                                            "configure", c, ~result')>>
                         /\ result' =>
                               Get(plugin_instances'[n]).cfg =
                                   {p \in old : \A q \in c : q[1] # p[1]}
                                       \cup c
                 ELSE /\ calls' = <<>>
                      /\ result'
                      /\ UNCHANGED plugin_instances]_vars

\* C20 witness: a configure that overwrote one key of the instance's
\* configuration and kept the other
C20_Witness ==
    /\ lastOp = Op("configure", "Notifier")
    /\ result
    /\ HasInstance("Notifier")
    /\ plugin_configs["Notifier"] = Some(CfgX)
    /\ Get(plugin_instances["Notifier"]).cfg =
           {<<"webhook", "x">>, <<"format", "csv">>}

\* C21: the configuration that enable(n, config) passes to initialize is the
\* config argument whenever one is supplied, whatever its value, else the
\* persisted configuration of n, else the empty configuration.
C21_ConfigResolution ==
    [][\A t \in Threads :
          (/\ stack[t] # <<>>
           /\ Top(t).op = "enable"
           /\ Top(t).pc = "callback"
           /\ stack'[t] = Goto(stack[t], "release")) =>
              LET arg == Top(t).arg
                  n == Top(t).name
                  resolved == IF IsSome(arg) THEN Get(arg)
                              ELSE IF IsSome(plugin_configs[n])
                                   THEN Get(plugin_configs[n])
                                   ELSE EmptyCfg
              IN \A k \in DOMAIN calls' :
                    calls'[k].method = "initialize" =>
                        calls'[k].arg = resolved]_vars

\* C22: disable(n) leaves n's instance in the instance map, and an enable(n)
\* that follows a successful disable(n) of a loaded n reuses it: no object is
\* constructed, initialize is not invoked, the instance keeps its
\* configuration, and unless enable() raises the call returns true with n
\* enabled and the instance's handlers routed.
C22_ReenableReusesInstance ==
    [][\A n \in Names :
          /\ (lastOp' = Op("disable", n) /\ HasInstance(n)) =>
                /\ IsSome(plugin_instances'[n])
                /\ Get(plugin_instances'[n]).id = Get(plugin_instances[n]).id
          /\ (/\ lastOp = Op("disable", n)
              /\ result
              /\ HasInstance(n)
              /\ n \in loaded_plugins
              /\ lastOp' = Op("enable", n)) =>
                /\ nextId' = nextId
                /\ IsSome(plugin_instances'[n])
                /\ Get(plugin_instances'[n]).id = Get(plugin_instances[n]).id
                /\ Get(plugin_instances'[n]).init_cfg =
                       Get(plugin_instances[n]).init_cfg
                /\ Get(plugin_instances'[n]).cfg = Get(plugin_instances[n]).cfg
                /\ \A k \in DOMAIN calls' : calls'[k].method # "initialize"
                /\ ~escaped' =>
                      /\ result'
                      /\ n \in enabled_plugins'
                      /\ \A e \in Events :
                            \A k \in DOMAIN PluginHandlers(
                                        n, Get(plugin_instances[n]).id, e) :
                                \E j \in DOMAIN event_handlers'[e] :
                                    event_handlers'[e][j] =
                                        PluginHandlers(
                                            n, Get(plugin_instances[n]).id,
                                            e)[k]]_vars

\* C22 witness: an enable, after at least one earlier operation, that ran
\* enable() on the instance already registered and nothing else, and left its
\* handlers routed
C22_Witness ==
    /\ lastOp = Op("enable", "Notifier")
    /\ result
    /\ ops >= 3
    /\ Len(calls) = 1
    /\ calls[1].method = "enable"
    /\ HasInstance("Notifier")
    /\ calls[1].inst = Get(plugin_instances["Notifier"]).id
    /\ Get(plugin_instances["Notifier"]).init_cfg = CfgY
    /\ HandlersRouted("Notifier", Get(plugin_instances["Notifier"]).id)

\* C23: a reload of n whose load step fails returns false and leaves n not
\* loaded and without an instance, and, for a Manager reload of an enabled n,
\* not enabled and without routing entries; a reload of a name that is not
\* loaded returns false and changes nothing.
C23_FailedReloadNotRestored ==
    [][\A n \in Names :
          (lastOp' = Op("reload", n) \/ lastOp' = Op("loader_reload", n)) =>
              /\ n \notin loaded_plugins =>
                    /\ ~result'
                    /\ UNCHANGED <<loaded_plugins, plugin_metadata,
                                   plugin_instances, enabled_plugins,
                                   event_handlers, plugin_configs>>
              /\ (n \in loaded_plugins /\ n \notin loaded_plugins') =>
                    /\ ~result'
                    /\ plugin_instances'[n] = None
                    /\ (lastOp'.op = "reload" /\ n \in enabled_plugins) =>
                          /\ n \notin enabled_plugins'
                          /\ \A e \in Events :
                                \A j \in DOMAIN event_handlers'[e] :
                                    event_handlers'[e][j].owner # n]_vars

\* C24: when trigger(e) returns, every handler that was registered under e
\* when it was called, is still registered under e and belongs to a plugin
\* that is still enabled has been invoked exactly once by it, whatever
\* disable calls ran during the dispatch, from its handlers or from the
\* other thread.
C24_DisableDuringDispatchSkipsNothing ==
    [][\A t \in Threads :
          (/\ stack[t] # <<>>
           /\ Top(t).op = "trigger"
           /\ Len(stack'[t]) < Len(stack[t])) =>
              LET f == Top(t)
              IN \A i \in DOMAIN f.start :
                    (/\ f.start[i] \in Range(event_handlers'[f.name])
                     /\ f.start[i].owner \in enabled_plugins') =>
                        Cardinality(
                            {k \in DOMAIN calls' :
                                /\ calls'[k].inst = f.start[i].inst
                                /\ calls'[k].method = f.start[i].method}) = 1
      ]_vars

\* C25: in every state reached through Manager operations, every routing
\* table entry bound to a plugin instance is bound to the instance that the
\* instance map holds for its plugin, and that plugin is in EnabledSet.
C25_RoutedHandlersAreCurrent ==
    \A e \in Events : \A k \in DOMAIN event_handlers[e] :
        LET h == event_handlers[e][k]
        IN h.owner # External =>
              /\ h.owner \in enabled_plugins
              /\ HasInstance(h.owner)
              /\ Get(plugin_instances[h.owner]).id = h.inst

\* C26: in every state reached through Manager operations, the is_enabled
\* flag of the instance of n is true exactly if n is in EnabledSet.
C26_FlagMatchesEnabledSet ==
    \A n \in Names :
        HasInstance(n) =>
            (Get(plugin_instances[n]).is_enabled <=> n \in enabled_plugins)

\* C27: a Manager constructed from the config file that shutdown() wrote has
\* the EnabledSet and the plugin_configs that held when shutdown() was
\* called.
C27_ShutdownPersistsPreShutdownState ==
    [][lastOp'.op = "shutdown" =>
          \A found \in SUBSET Names :
              LET S == Construct(config_file', DiscoveryOrder, found, "ok")
              IN /\ S.enabled_plugins = enabled_plugins
                 /\ S.plugin_configs = plugin_configs]_vars

\* the entries of a handler list that do not belong to plugin n, in order
OthersEntries(handlers, n) ==
    LET NotOf(h) == h.owner # n
    IN SelectSeq(handlers, NotOf)

\* C28: disable(n) leaves unchanged the routing-table entries of the other
\* plugins and of the external handlers and their order under each event,
\* the EnabledSet membership of every other name, the loaded types, the
\* instance map (the same object under the same name) and plugin_configs.
C28_DisableChangesOnlyItsPlugin ==
    [][\A n \in Names :
          lastOp' = Op("disable", n) =>
              /\ \A e \in Events :
                    OthersEntries(event_handlers'[e], n) =
                        OthersEntries(event_handlers[e], n)
              /\ enabled_plugins' \ {n} = enabled_plugins \ {n}
              /\ loaded_plugins' = loaded_plugins
              /\ plugin_metadata' = plugin_metadata
              /\ plugin_configs' = plugin_configs
              /\ \A m \in Names :
                    /\ IsSome(plugin_instances'[m]) = IsSome(plugin_instances[m])
                    /\ m # n => plugin_instances'[m] = plugin_instances[m]
                    /\ IsSome(plugin_instances[m]) =>
                          /\ Get(plugin_instances'[m]).id =
                                 Get(plugin_instances[m]).id
                          /\ Get(plugin_instances'[m]).cfg =
                                 Get(plugin_instances[m]).cfg]_vars

\* C28 witness: a disable of Notifier that removed its entries while the
\* entries of an external handler and of another plugin stayed routed
C28_Witness ==
    /\ lastOp = Op("disable", "Notifier")
    /\ result
    /\ Len(calls) = 2
    /\ calls[2].method = "cleanup"
    /\ "Notifier" \notin enabled_plugins
    /\ ~OwnsEntry("Notifier")
    /\ OwnsEntry(External) \/ OwnsEntry("MissingPlugin")

\* C30: no operation invokes cleanup() on an instance on which an earlier
\* cleanup() has already completed.
C30_CleanupAtMostOnce ==
    \A j, k \in DOMAIN calls :
        (/\ j < k
         /\ calls[j].method = "cleanup"
         /\ ~calls[j].raised
         /\ calls[k].method = "cleanup") =>
            calls[j].inst # calls[k].inst

\* the number of entries of a handler list equal to h
Occurrences(handlers, h) ==
    Cardinality({k \in DOMAIN handlers : handlers[k] = h})

\* C29: when enable(n) calls of two threads overlap, for a loaded n, each
\* call that ends finds the state as if the calls had run one after the
\* other: a call that finds n enabled returns true and changes nothing; a
\* call that finds n not enabled constructs and initializes an object only if
\* n has no instance, and, unless one of its callbacks fails, returns true
\* with n enabled and each capability handler of the one instance of n
\* registered exactly once.
C29_ConcurrentEnableOnce ==
    [][\A t \in Threads :
          (/\ stack[t] # <<>>
           /\ Top(t).op = "enable"
           /\ Top(t).pc \in {"locked", "callback"}
           /\ stack'[t] = Goto(stack[t], "release")
           /\ Top(t).name \in loaded_plugins) =>
              LET n == Top(t).name
                  Initializes ==
                      {k \in DOMAIN calls' : calls'[k].method = "initialize"}
              IN IF n \in enabled_plugins
                 THEN /\ result'
                      /\ nextId' = nextId
                      /\ Initializes = {}
                      /\ plugin_instances' = plugin_instances
                      /\ event_handlers' = event_handlers
                      /\ enabled_plugins' = enabled_plugins
                 ELSE /\ nextId' = (IF ~HasInstance(n)
                                       /\ IsSome(plugin_instances'[n])
                                    THEN nextId + 1
                                    ELSE nextId)
                      /\ Cardinality(Initializes) =
                             (IF HasInstance(n) THEN 0 ELSE 1)
                      /\ HasInstance(n) =>
                            /\ IsSome(plugin_instances'[n])
                            /\ Get(plugin_instances'[n]).id =
                                   Get(plugin_instances[n]).id
                      /\ (IsSome(plugin_instances'[n]) /\ ~escaped') =>
                            /\ result'
                            /\ n \in enabled_plugins'
                            /\ \A e \in Events :
                                  LET hs == PluginHandlers(
                                               n, Get(plugin_instances'[n]).id,
                                               e)
                                  IN \A k \in DOMAIN hs :
                                        Occurrences(event_handlers'[e],
                                                    hs[k]) = 1]_vars

\* C29 witness: a thread has enabled Notifier, constructing its first
\* instance, and is about to release the lock while the enable(Notifier)
\* call of the other thread waits for it
C29_Witness ==
    \E t, u \in Threads :
        /\ t # u
        /\ stack[t] # <<>>
        /\ stack[u] # <<>>
        /\ Top(t).op = "enable" /\ Top(t).name = "Notifier"
        /\ Top(t).pc = "release"
        /\ Top(u).op = "enable" /\ Top(u).name = "Notifier"
        /\ Top(u).pc = "acquire"
        /\ lock = Some(t)
        /\ result
        /\ "Notifier" \in enabled_plugins
        /\ nextId = 2
        /\ HandlersRouted("Notifier", 1)

====
